---- MODULE Spec2Model ----
(***************************************************************************)
(* DocumentSplitter (haystack/nodes/preprocessor/splitter.py).             *)
(*                                                                         *)
(* A text is a sequence of one-character strings.  An optional value       *)
(* (Python's None or a value) is the empty sequence or a one-element       *)
(* sequence.  Unit and window indices are 0-based as in the source; the    *)
(* i-th unit of a sequence s is s[i + 1].                                  *)
(***************************************************************************)
EXTENDS Integers, Sequences, FiniteSets, TLC

VARIABLES
    pc,               \* "new"; "failed" (__init__ raised); "ready"; in split: "loop",
                      \* "returned", "raised"; in run_batch, between two calls of
                      \* split: "run_batch", and "batch_returned"; in the assembler
                      \* taken alone: "assemble", "assembled"
    init_args,        \* the arguments __init__ was called with
    splitter,         \* the instance's attributes (self.*) once constructed
    call,             \* the locals of the running split call (effective parameters)
    documents,        \* the batch passed to split
    idx,              \* number of documents of the batch the for loop has consumed
    final_documents,  \* split's accumulator, and its return value
    heap,             \* the meta mappings, by object identity
    raised,           \* the exception the last operation raised, or "none"
    valid_contents,   \* the validated units of the last document split
    windows,          \* the windows of the last document split
    history,          \* the overrides of the calls of split made so far, in order
    batch             \* run_batch's frame: its lists, its arguments, its results

vars == <<pc, init_args, splitter, call, documents, idx, final_documents, heap, raised,
          valid_contents, windows, history, batch>>

----------------------------------------------------------------------------
(* Bounds of the model                                                     *)

MaxLen == 4           \* characters of a document
MaxSplitLength == 3   \* split_length
MaxOverlap == 2       \* split_overlap
MaxChars == 3         \* max_chars
MaxTokens == 2        \* max_tokens
MaxHeadlines == 1     \* headlines of a document
MaxBatch == 2         \* documents of a batch
MaxCalls == 2         \* calls of split on one instance
MaxLists == 2         \* lists of documents given to run_batch
MaxUnits == 3         \* units given to the assembler taken alone

----------------------------------------------------------------------------
(* Optional values and texts                                               *)

None == <<>>
Some(v) == <<v>>
IsNone(o) == o = <<>>
Get(o) == o[1]

\* x if x is not None else d
OrElse(o, d) == IF IsNone(o) THEN d ELSE Get(o)

Space == " "
Newline == "\n"
FormFeed == "\f"
Dot == "."

Whitespace == {Space, Newline, FormFeed}

Max(a, b) == IF a >= b THEN a ELSE b
Min(a, b) == IF a <= b THEN a ELSE b

RECURSIVE Concat(_)
\* "".join(texts)
Concat(texts) ==
    IF texts = <<>> THEN <<>> ELSE Head(texts) \o Concat(Tail(texts))

RECURSIVE JoinSpace(_)
\* " ".join(texts)
JoinSpace(texts) ==
    IF texts = <<>> THEN <<>>
    ELSE IF Len(texts) = 1 THEN Head(texts)
    ELSE Head(texts) \o <<Space>> \o JoinSpace(Tail(texts))

RECURSIVE SumLen(_)
SumLen(texts) ==
    IF texts = <<>> THEN 0 ELSE Len(Head(texts)) + SumLen(Tail(texts))

\* text.count(ch)
Count(text, ch) == Cardinality({i \in 1..Len(text) : text[i] = ch})

\* Does the literal sep occur in text at (1-based) position i ?
MatchesAt(text, sep, i) ==
    /\ Len(sep) > 0
    /\ i + Len(sep) - 1 <= Len(text)
    /\ SubSeq(text, i, i + Len(sep) - 1) = sep

----------------------------------------------------------------------------
(* split_helpers: the segmentation strategies (spec section 4.1)           *)

RECURSIVE SplitScan(_, _, _, _, _)
\* Scan text from position i; the unit being built starts at position start.
\* At each position the first separator of the list that matches wins, and
\* it stays attached to the end of the unit it closes.
SplitScan(text, separators, i, start, acc) ==
    IF i > Len(text)
    THEN IF start <= Len(text)
         THEN Append(acc, SubSeq(text, start, Len(text)))
         ELSE acc
    ELSE LET hits == {k \in 1..Len(separators) : MatchesAt(text, separators[k], i)}
         IN  IF hits = {}
             THEN SplitScan(text, separators, i + 1, start, acc)
             ELSE LET k == CHOOSE h \in hits : \A g \in hits : h <= g
                      e == i + Len(separators[k]) - 1
                  IN  SplitScan(text, separators, e + 1, e + 1,
                                Append(acc, SubSeq(text, start, e)))

split_by_separators(text, separators) == SplitScan(text, separators, 1, 1, <<>>)

split_by_separator(text, separator) == split_by_separators(text, <<separator>>)

\* The patterns of the model are literals: the match of a pattern is the
\* pattern itself.
split_by_regex(text, pattern) == split_by_separators(text, <<pattern>>)

\* Last position of the run of whitespace that starts at position i.
RunEnd(text, i) ==
    CHOOSE j \in i..Len(text) :
        /\ \A k \in i..j : text[k] \in Whitespace
        /\ (j = Len(text) \/ text[j + 1] \notin Whitespace)

RECURSIVE SentenceScan(_, _, _, _)
\* The sentence model of the external tokenizer: a sentence ends at a full
\* stop followed by whitespace, and the whitespace stays with it.
SentenceScan(text, i, start, acc) ==
    IF i > Len(text)
    THEN IF start <= Len(text)
         THEN Append(acc, SubSeq(text, start, Len(text)))
         ELSE acc
    ELSE IF text[i] = Dot /\ i < Len(text) /\ text[i + 1] \in Whitespace
         THEN LET e == RunEnd(text, i + 1)
              IN  SentenceScan(text, e + 1, e + 1, Append(acc, SubSeq(text, start, e)))
         ELSE SentenceScan(text, i + 1, start, acc)

split_by_sentence_tokenizer(text) == SentenceScan(text, 1, 1, <<>>)

\* self._tokenizer for tokenizer_model == "word"
WordTokenizer(text) ==
    split_by_separators(text, << <<Space>>, <<Newline>>, <<FormFeed>> >>)

----------------------------------------------------------------------------
(* merge_helpers: boundary validation and window assembly (4.2, 4.3)       *)

\* 0-based offsets at which the tokens of a document start.
RECURSIVE TokenStarts(_, _)
TokenStarts(tokens, pos) ==
    IF tokens = <<>> THEN {}
    ELSE {pos} \cup TokenStarts(Tail(tokens), pos + Len(Head(tokens)))

\* text[k * size : (k + 1) * size] for k = 0, 1, ...
Slices(text, size) ==
    LET n == (Len(text) + size - 1) \div size
    IN  [k \in 1..n |-> SubSeq(text, (k - 1) * size + 1, Min(k * size, Len(text)))]

\* The units a unit becomes: itself, or its slices of max_chars characters.
ForceSplit(text, max_chars) ==
    IF max_chars > 0 /\ Len(text) > max_chars
    THEN Slices(text, max_chars)
    ELSE <<text>>

RECURSIVE WithTokenCounts(_, _, _)
\* Pair every text with the number of tokens that start inside it.
WithTokenCounts(texts, starts, pos) ==
    IF texts = <<>> THEN <<>>
    ELSE LET t == Head(texts)
             n == Cardinality({o \in starts : pos <= o /\ o < pos + Len(t)})
         IN  << <<t, n>> >> \o WithTokenCounts(Tail(texts), starts, pos + Len(t))

RECURSIVE ForceSplitAll(_, _)
ForceSplitAll(contents, max_chars) ==
    IF contents = <<>> THEN <<>>
    ELSE ForceSplit(Head(contents), max_chars) \o ForceSplitAll(Tail(contents), max_chars)

\* tokens is None or Some(list of tokens).  A unit above max_tokens is
\* passed through unchanged.
validate_unit_boundaries(contents, max_chars, max_tokens, tokens) ==
    WithTokenCounts(ForceSplitAll(contents, max_chars),
                    IF IsNone(tokens) THEN {} ELSE TokenStarts(Get(tokens), 0),
                    0)

\* May the unit of index e join a window that holds the units s..e-1 with
\* chars characters and toks tokens ?
CanGrow(contents, s, e, chars, toks, window_size, max_chars, max_tokens) ==
    /\ e < Len(contents)
    /\ (window_size > 0 => e - s < window_size)
    /\ (max_chars > 0 => chars + Len(contents[e + 1][1]) <= max_chars)
    /\ (max_tokens > 0 => toks + contents[e + 1][2] <= max_tokens)

RECURSIVE GrowWindow(_, _, _, _, _, _, _, _)
\* The end e (exclusive) of the window that starts at s.
GrowWindow(contents, s, e, chars, toks, window_size, max_chars, max_tokens) ==
    IF CanGrow(contents, s, e, chars, toks, window_size, max_chars, max_tokens)
    THEN GrowWindow(contents, s, e + 1, chars + Len(contents[e + 1][1]),
                    toks + contents[e + 1][2], window_size, max_chars, max_tokens)
    ELSE e

\* A window always takes its first unit.
WindowEnd(contents, s, window_size, max_chars, max_tokens) ==
    GrowWindow(contents, s, s + 1, Len(contents[s + 1][1]), contents[s + 1][2],
               window_size, max_chars, max_tokens)

\* Faulty variant of NextStart: the stride is not kept above zero
NextStartBareStride(s, e, window_size, window_overlap) ==
    IF window_size > 0
    THEN s + (window_size - window_overlap)
    ELSE e

NextStart(s, e, window_size, window_overlap) ==
    IF window_size > 0
    THEN s + Max(window_size - window_overlap, 1)
    ELSE e

RECURSIVE Assemble(_, _, _, _, _, _, _)
Assemble(contents, s, window_size, window_overlap, max_chars, max_tokens, acc) ==
    IF s >= Len(contents) THEN acc
    ELSE LET e == WindowEnd(contents, s, window_size, max_chars, max_tokens)
             window == [i \in 1..(e - s) |-> s + i - 1]
         IN  Assemble(contents, NextStart(s, e, window_size, window_overlap),
                      window_size, window_overlap, max_chars, max_tokens,
                      Append(acc, window))

make_merge_groups(contents, window_size, window_overlap, max_chars, max_tokens) ==
    Assemble(contents, 0, window_size, window_overlap, max_chars, max_tokens, <<>>)

\* The window [s, e) as the list of its indices
WindowFrom(s, e) == [i \in 1..(e - s) |-> s + i - 1]

\* One turn of the assembler's loop, taken alone: the units are
\* valid_contents, the start index s is idx, the parameters are those of
\* call, the windows recorded so far are windows.
AssembleStep ==
    /\ pc = "assemble"
    /\ idx < Len(valid_contents)
    /\ LET e == WindowEnd(valid_contents, idx, call.split_length, call.max_chars,
                          call.max_tokens)
       IN  /\ windows' = Append(windows, WindowFrom(idx, e))
           /\ idx' = NextStart(idx, e, call.split_length, call.split_overlap)
    /\ UNCHANGED <<pc, init_args, splitter, call, documents, final_documents, heap, raised,
                   valid_contents, history, batch>>

\* The assembler's loop ends: s >= len(validated_units)
AssembleReturn ==
    /\ pc = "assemble"
    /\ idx >= Len(valid_contents)
    /\ pc' = "assembled"
    /\ UNCHANGED <<init_args, splitter, call, documents, idx, final_documents, heap, raised,
                   valid_contents, windows, history, batch>>

----------------------------------------------------------------------------
(* DocumentSplitter                                                        *)

\* typing.get_args(SplitBy)
SplitBy == {"character", "token", "word", "sentence", "paragraph", "page", "regex"}

\* Python's "not x" for an optional string or list
Falsy(o) == IsNone(o) \/ Get(o) = <<>>

\* Faulty variant of validate_split_params_raises: an overlap equal to the
\* length passes
validate_split_params_raises_off_by_one(split_by, split_regex, split_separators, split_length, split_overlap, max_chars, max_tokens) ==
    \/ split_by \notin SplitBy
    \/ split_length < 0
    \/ (split_length /= 0 /\ (split_overlap < 0 \/ split_overlap > split_length))

\* TRUE iff _validate_split_params raises ValueError (its warnings are not
\* modelled: they change nothing).
validate_split_params_raises(split_by, split_regex, split_separators, split_length, split_overlap, max_chars, max_tokens) ==
    \/ split_by \notin SplitBy
    \/ split_length < 0
    \/ (split_length /= 0 /\ (split_overlap < 0 \/ split_overlap >= split_length))

\* The tokenizer setter: None means the setter raises ValueError.
tokenizer_setter(tokenizer_model) ==
    IF IsNone(tokenizer_model) THEN None ELSE Some(Get(tokenizer_model))

NoSplitter ==
    [split_by |-> "", split_length |-> 0, split_overlap |-> 0, split_regex |-> None,
     split_separators |-> None, max_chars |-> 0, max_tokens |-> 0,
     add_page_number |-> FALSE, tokenizer |-> None]

NoArgs ==
    [split_by |-> "", split_length |-> 0, split_overlap |-> 0, split_regex |-> None,
     split_separators |-> None, max_chars |-> 0, max_tokens |-> 0,
     tokenizer_model |-> None, add_page_number |-> FALSE]

Raise == [fn |-> "ValueError", arg |-> <<>>]

\* The optional parameters of split, all left at None
NoOverrides ==
    [split_by |-> None, split_regex |-> None, split_separators |-> None,
     split_length |-> None, split_overlap |-> None, max_chars |-> None,
     max_tokens |-> None, add_page_number |-> None]

\* The optional parameters of run_batch, all left at None
NoRunArgs ==
    [split_by |-> None, split_regex |-> None, split_length |-> None,
     split_overlap |-> None, split_max_chars |-> None, add_page_number |-> None]

\* No run_batch is running
NoBatch == [lists |-> <<>>, args |-> NoRunArgs, results |-> <<>>, active |-> FALSE]

NoCall ==
    [split_by |-> "", split_regex |-> None, split_separators |-> None,
     split_length |-> 0, split_overlap |-> 0, max_chars |-> 0, max_tokens |-> 0,
     add_page_number |-> FALSE, splitter_function |-> Raise]

\* The function get_splitter returns, as the helper it wraps and the
\* separators or patterns bound to it; Raise when it raises ValueError.
get_splitter(split_by, split_regex, split_separators) ==
    IF split_by = "regex"
    THEN IF Falsy(split_regex) THEN Raise
         ELSE [fn |-> "split_by_regex", arg |-> <<Get(split_regex)>>]
    ELSE IF split_by = "separators"
    THEN IF Falsy(split_separators) THEN Raise
         ELSE [fn |-> "split_by_separators", arg |-> Get(split_separators)]
    ELSE IF split_by = "page"
    THEN [fn |-> "split_by_separator", arg |-> << <<FormFeed>> >>]
    ELSE IF split_by = "paragraph"
    THEN [fn |-> "split_by_separator", arg |-> << <<Newline, Newline>> >>]
    ELSE IF split_by = "sentence"
    THEN [fn |-> "split_by_sentence_tokenizer", arg |-> <<>>]
    ELSE IF split_by = "word"
    THEN [fn |-> "split_by_separators", arg |-> << <<Space>>, <<Newline>>, <<FormFeed>> >>]
    ELSE IF split_by = "token"
    THEN [fn |-> "tokenizer", arg |-> <<>>]
    ELSE Raise

\* splitter_function(text=text)
ApplySplitter(f, text) ==
    CASE f.fn = "split_by_regex" -> split_by_regex(text, f.arg[1])
      [] f.fn = "split_by_separators" -> split_by_separators(text, f.arg)
      [] f.fn = "split_by_separator" -> split_by_separator(text, f.arg[1])
      [] f.fn = "split_by_sentence_tokenizer" -> split_by_sentence_tokenizer(text)
      [] f.fn = "tokenizer" -> WordTokenizer(text)

\* The stub that is fix_metadata: the parent's meta object, once per chunk.
fix_metadata(source_text, preprocessed_texts, source_meta) ==
    [i \in 1..Len(preprocessed_texts) |-> source_meta]

\* " ".join([valid_contents[doc_index][0] for doc_index in window])
JoinWindow(contents, window) ==
    JoinSpace([i \in 1..Len(window) |-> contents[window[i] + 1][1]])

\* The tokens of a document when max_tokens asks for them
TokensOf(c, text) ==
    IF c.max_tokens /= 0 THEN Some(WordTokenizer(text)) ELSE None

\* Faulty variant of ValidContentsOf: max_tokens is handed over as max_chars
ValidContentsOfTokenCap(c, text) ==
    validate_unit_boundaries(ApplySplitter(c.splitter_function, text),
                             c.max_tokens, c.max_tokens, TokensOf(c, text))

ValidContentsOf(c, text) ==
    validate_unit_boundaries(ApplySplitter(c.splitter_function, text),
                             c.max_chars, c.max_tokens, TokensOf(c, text))

\* Faulty variant of WindowsOf: split_overlap is not handed to the assembler
WindowsOfNoOverlap(c, contents) ==
    make_merge_groups(contents, c.split_length, 0, c.max_chars, c.max_tokens)

\* Faulty variant of WindowsOf: max_chars and max_tokens change places
WindowsOfSwappedCaps(c, contents) ==
    make_merge_groups(contents, c.split_length, c.split_overlap, c.max_tokens, c.max_chars)

\* windows = make_merge_groups(contents=valid_contents, window_size=split_length, ...)
WindowsOf(c, contents) ==
    make_merge_groups(contents, c.split_length, c.split_overlap, c.max_chars, c.max_tokens)

\* __init__
Construct(p) ==
    /\ pc = "new"
    /\ init_args' = p
    /\ IF \/ validate_split_params_raises(p.split_by, p.split_regex, p.split_separators,
                                          p.split_length, p.split_overlap,
                                          p.max_chars, p.max_tokens)
          \/ ((~IsNone(p.tokenizer_model) \/ p.max_tokens /= 0)
                /\ IsNone(tokenizer_setter(p.tokenizer_model)))
       THEN /\ pc' = "failed"
            /\ raised' = "ValueError"
            /\ UNCHANGED splitter
       ELSE /\ pc' = "ready"
            /\ raised' = "none"
            /\ splitter' =
                 [split_by |-> p.split_by, split_length |-> p.split_length,
                  split_overlap |-> p.split_overlap, split_regex |-> p.split_regex,
                  split_separators |-> p.split_separators, max_chars |-> p.max_chars,
                  max_tokens |-> p.max_tokens, add_page_number |-> p.add_page_number,
                  tokenizer |-> IF ~IsNone(p.tokenizer_model) \/ p.max_tokens /= 0
                                THEN tokenizer_setter(p.tokenizer_model)
                                ELSE None]
    /\ UNCHANGED <<call, documents, idx, final_documents, heap, valid_contents, windows,
                   history, batch>>

\* The effective parameters of a call of split
Effective(ov) ==
    [split_by |-> OrElse(ov.split_by, splitter.split_by),
     split_regex |-> IF IsNone(ov.split_regex) THEN splitter.split_regex ELSE ov.split_regex,
     split_separators |-> IF IsNone(ov.split_separators) THEN splitter.split_separators
                          ELSE ov.split_separators,
     split_length |-> OrElse(ov.split_length, splitter.split_length),
     split_overlap |-> OrElse(ov.split_overlap, splitter.split_overlap),
     max_chars |-> OrElse(ov.max_chars, splitter.max_chars),
     max_tokens |-> OrElse(ov.max_tokens, splitter.max_tokens),
     add_page_number |-> OrElse(ov.add_page_number, splitter.add_page_number)]

\* Faulty variant of SplitBody: the split_length of the call is stored on
\* the instance
SplitBodyStoring(docs, ov) ==
    /\ LET e == Effective(ov)
           f == get_splitter(e.split_by, e.split_regex, e.split_separators)
           bad == \/ validate_split_params_raises(e.split_by, e.split_regex,
                        e.split_separators, e.split_length, e.split_overlap,
                        e.max_chars, e.max_tokens)
                  \/ \E i \in 1..Len(docs) : docs[i].content_type /= "text"
                  \/ (e.split_by = "token" /\ IsNone(splitter.tokenizer))
                  \/ f.fn = "ValueError"
       IN  /\ call' = [splitter_function |-> f] @@ e
           /\ pc' = IF bad THEN "raised" ELSE "loop"
           /\ raised' = IF bad THEN "ValueError" ELSE "none"
    /\ documents' = docs
    /\ idx' = 0
    /\ final_documents' = <<>>
    /\ valid_contents' = <<>>
    /\ windows' = <<>>
    /\ history' = Append(history, ov)
    /\ splitter' = [splitter EXCEPT !.split_length = Effective(ov).split_length]
    /\ UNCHANGED init_args

\* Faulty variant of SplitBody: the batch is refused only when none of its
\* documents is a text (all for any)
SplitBodyAllNonText(docs, ov) ==
    /\ LET e == Effective(ov)
           f == get_splitter(e.split_by, e.split_regex, e.split_separators)
           bad == \/ validate_split_params_raises(e.split_by, e.split_regex,
                        e.split_separators, e.split_length, e.split_overlap,
                        e.max_chars, e.max_tokens)
                  \/ \A i \in 1..Len(docs) : docs[i].content_type /= "text"
                  \/ (e.split_by = "token" /\ IsNone(splitter.tokenizer))
                  \/ f.fn = "ValueError"
       IN  /\ call' = [splitter_function |-> f] @@ e
           /\ pc' = IF bad THEN "raised" ELSE "loop"
           /\ raised' = IF bad THEN "ValueError" ELSE "none"
    /\ documents' = docs
    /\ idx' = 0
    /\ final_documents' = <<>>
    /\ valid_contents' = <<>>
    /\ windows' = <<>>
    /\ history' = Append(history, ov)
    /\ UNCHANGED <<init_args, splitter>>

\* split, up to the for loop: the parameters are resolved and validated, the
\* batch is checked and the splitting function is chosen.  The metas of docs
\* are objects of the heap.
SplitBody(docs, ov) ==
    /\ LET e == Effective(ov)
           f == get_splitter(e.split_by, e.split_regex, e.split_separators)
           bad == \/ validate_split_params_raises(e.split_by, e.split_regex,
                        e.split_separators, e.split_length, e.split_overlap,
                        e.max_chars, e.max_tokens)
                  \/ \E i \in 1..Len(docs) : docs[i].content_type /= "text"
                  \/ (e.split_by = "token" /\ IsNone(splitter.tokenizer))
                  \/ f.fn = "ValueError"
       IN  /\ call' = [splitter_function |-> f] @@ e
           /\ pc' = IF bad THEN "raised" ELSE "loop"
           /\ raised' = IF bad THEN "ValueError" ELSE "none"
    /\ documents' = docs
    /\ idx' = 0
    /\ final_documents' = <<>>
    /\ valid_contents' = <<>>
    /\ windows' = <<>>
    /\ history' = Append(history, ov)
    /\ UNCHANGED <<init_args, splitter>>

\* The documents of a batch, their metas replaced by the objects from + 1,
\* from + 2, ... of the heap
WithRefs(docs, from) == [r \in 1..Len(docs) |-> [docs[r] EXCEPT !.meta = from + r]]

MetasOf(docs) == [r \in 1..Len(docs) |-> docs[r].meta]

\* The first call of split on the instance.  The metas of the batch are the
\* objects 1..Len(docs) of the heap.
SplitCall(docs, ov) ==
    /\ pc = "ready"
    /\ heap' = MetasOf(docs)
    /\ SplitBody(WithRefs(docs, 0), ov)
    /\ UNCHANGED batch

\* A further call of split on the instance, after one that returned or raised
SplitAgain(docs, ov) ==
    /\ pc \in {"returned", "raised"}
    /\ ~batch.active
    /\ Len(history) < MaxCalls
    /\ heap' = MetasOf(docs)
    /\ SplitBody(WithRefs(docs, 0), ov)
    /\ UNCHANGED batch

\* Faulty variant of NewDocuments: the chunks of a document in reverse order
NewDocumentsReversed(document, split_documents, split_metadata) ==
    [w \in 1..Len(split_documents) |->
        [content |-> split_documents[Len(split_documents) + 1 - w],
         meta |-> split_metadata[Len(split_documents) + 1 - w],
         id_hash_keys |-> document.id_hash_keys]]

\* [Document(content=split_doc, meta=split_meta, id_hash_keys=document.id_hash_keys)
\*  for split_doc, split_meta in zip(split_documents, split_metadata)]
NewDocuments(document, split_documents, split_metadata) ==
    [w \in 1..Len(split_documents) |->
        [content |-> split_documents[w], meta |-> split_metadata[w],
         id_hash_keys |-> document.id_hash_keys]]

\* Faulty variant of SplitDocument: an empty document ends the loop (break
\* for continue)
SplitDocumentBreak ==
    /\ pc = "loop"
    /\ idx < Len(documents)
    /\ LET document == documents[idx + 1]
       IN  IF document.content = <<>>
           THEN /\ idx' = Len(documents)
                /\ UNCHANGED <<pc, raised, final_documents, valid_contents, windows>>
           ELSE IF call.max_tokens /= 0 /\ IsNone(splitter.tokenizer)
           THEN \* self.tokenizer(document.content) with self.tokenizer None
                /\ pc' = "raised"
                /\ raised' = "TypeError"
                /\ UNCHANGED <<idx, final_documents, valid_contents, windows>>
           ELSE LET contents == ValidContentsOf(call, document.content)
                    groups == WindowsOf(call, contents)
                    split_documents == [w \in 1..Len(groups) |-> JoinWindow(contents, groups[w])]
                    split_metadata == fix_metadata(document.content, split_documents,
                                                   document.meta)
                IN  /\ valid_contents' = contents
                    /\ windows' = groups
                    /\ final_documents' = final_documents \o
                         NewDocuments(document, split_documents, split_metadata)
                    /\ idx' = idx + 1
                    /\ UNCHANGED <<pc, raised>>
    /\ UNCHANGED <<init_args, splitter, call, documents, heap, history, batch>>

\* One iteration of the for loop of split
SplitDocument ==
    /\ pc = "loop"
    /\ idx < Len(documents)
    /\ LET document == documents[idx + 1]
       IN  IF document.content = <<>>
           THEN /\ idx' = idx + 1
                /\ UNCHANGED <<pc, raised, final_documents, valid_contents, windows>>
           ELSE IF call.max_tokens /= 0 /\ IsNone(splitter.tokenizer)
           THEN \* self.tokenizer(document.content) with self.tokenizer None
                /\ pc' = "raised"
                /\ raised' = "TypeError"
                /\ UNCHANGED <<idx, final_documents, valid_contents, windows>>
           ELSE LET contents == ValidContentsOf(call, document.content)
                    groups == WindowsOf(call, contents)
                    split_documents == [w \in 1..Len(groups) |-> JoinWindow(contents, groups[w])]
                    split_metadata == fix_metadata(document.content, split_documents,
                                                   document.meta)
                IN  /\ valid_contents' = contents
                    /\ windows' = groups
                    /\ final_documents' = final_documents \o
                         NewDocuments(document, split_documents, split_metadata)
                    /\ idx' = idx + 1
                    /\ UNCHANGED <<pc, raised>>
    /\ UNCHANGED <<init_args, splitter, call, documents, heap, history, batch>>

\* return final_documents: to the caller of split or, inside run_batch, to
\* the list run_batch builds
SplitReturn ==
    /\ pc = "loop"
    /\ idx = Len(documents)
    /\ IF batch.active
       THEN /\ pc' = "run_batch"
            /\ batch' = [batch EXCEPT !.results = Append(@, final_documents)]
       ELSE /\ pc' = "returned"
            /\ UNCHANGED batch
    /\ UNCHANGED <<init_args, splitter, call, documents, idx, final_documents, heap, raised,
                   valid_contents, windows, history>>

\* Faulty variant of RunBatchOverrides: split_max_chars is not handed on
RunBatchOverridesNoMaxChars(rb) ==
    [split_by |-> rb.split_by, split_regex |-> rb.split_regex, split_separators |-> None,
     split_length |-> rb.split_length, split_overlap |-> rb.split_overlap,
     max_chars |-> None, max_tokens |-> None,
     add_page_number |-> rb.add_page_number]

\* What run_batch hands to run, and run to split: split_max_chars as
\* max_chars, nothing for split_separators and max_tokens
RunBatchOverrides(rb) ==
    [split_by |-> rb.split_by, split_regex |-> rb.split_regex, split_separators |-> None,
     split_length |-> rb.split_length, split_overlap |-> rb.split_overlap,
     max_chars |-> rb.split_max_chars, max_tokens |-> None,
     add_page_number |-> rb.add_page_number]

RECURSIVE Flatten(_)
Flatten(lists) == IF lists = <<>> THEN <<>> ELSE Head(lists) \o Flatten(Tail(lists))

\* The number of documents in the lists before the i-th
DocsBefore(lists, i) == Len(Flatten(SubSeq(lists, 1, i - 1)))

\* run_batch is called: the metas of all its documents are objects of the heap
RunBatch(lists, rb) ==
    /\ pc = "ready"
    /\ pc' = "run_batch"
    /\ heap' = MetasOf(Flatten(lists))
    /\ batch' = [lists |-> [i \in 1..Len(lists) |-> WithRefs(lists[i], DocsBefore(lists, i))],
                 args |-> rb, results |-> <<>>, active |-> TRUE]
    /\ UNCHANGED <<init_args, splitter, call, documents, idx, final_documents, raised,
                   valid_contents, windows, history>>

\* The list comprehension of run_batch: self.run(documents=docs, ...) for the
\* next list
RunBatchNext ==
    /\ pc = "run_batch"
    /\ Len(batch.results) < Len(batch.lists)
    /\ SplitBody(batch.lists[Len(batch.results) + 1], RunBatchOverrides(batch.args))
    /\ UNCHANGED <<heap, batch>>

\* return {"documents": documents}, "output_1"
RunBatchReturn ==
    /\ pc = "run_batch"
    /\ Len(batch.results) = Len(batch.lists)
    /\ pc' = "batch_returned"
    /\ UNCHANGED <<init_args, splitter, call, documents, idx, final_documents, heap, raised,
                   valid_contents, windows, history, batch>>

Init ==
    /\ pc = "new"
    /\ init_args = NoArgs
    /\ splitter = NoSplitter
    /\ call = NoCall
    /\ documents = <<>>
    /\ idx = 0
    /\ final_documents = <<>>
    /\ heap = <<>>
    /\ raised = "none"
    /\ valid_contents = <<>>
    /\ windows = <<>>
    /\ history = <<>>
    /\ batch = NoBatch

----------------------------------------------------------------------------
(* The inputs of the model                                                 *)

Texts(alphabet, n) == UNION {[1..k -> alphabet] : k \in 0..n}

Opt(S) == {None} \cup {Some(v) : v \in S}

ParamSpace(split_bys, lengths, overlaps, regexes, separators, chars, tokens, tokenizers, pages) ==
    [split_by : split_bys, split_length : lengths, split_overlap : overlaps,
     split_regex : regexes, split_separators : separators, max_chars : chars,
     max_tokens : tokens, tokenizer_model : tokenizers, add_page_number : pages]

Batches(docs, n) == UNION {[1..k -> docs] : k \in 0..n}

Doc(content, content_type, meta) ==
    [content |-> content, content_type |-> content_type, meta |-> meta,
     id_hash_keys |-> None]

EmptyMeta == [name |-> "doc"]

\* The configuration surface: every split_by keyword of the documentation
\* and an unknown one, with and without a tokenizer, a pattern, separators.
SplitByValues == SplitBy \cup {"separators", "unknown"}

SurfaceParams ==
    ParamSpace(SplitByValues, {2}, {0}, Opt({<<"a">>}), Opt({<< <<Space>> >>}),
               {0}, {0, 1}, Opt({"word"}), {TRUE})

SurfaceOverrides ==
    {[NoOverrides EXCEPT !.split_by = sb, !.max_tokens = mt] :
        sb \in Opt(SplitByValues), mt \in Opt({0, 1})}

SurfaceDocs == {Doc(c, "text", EmptyMeta) : c \in {<<>>, <<"a">>, <<"a", Space, "a">>}}

SurfaceBatches == Batches(SurfaceDocs, MaxBatch)

\* The window parameters, over documents of words
WindowParams ==
    ParamSpace({"word"}, 0..MaxSplitLength, 0..MaxOverlap, {None}, {None},
               0..MaxChars, 0..MaxTokens, {Some("word")}, {TRUE})

WindowDocs == {Doc(c, "text", EmptyMeta) : c \in Texts({"a", Space}, MaxLen)}

WindowBatches == {<<d>> : d \in WindowDocs}

\* Documents with pages and headlines.  A headline is named by its offset in
\* the document: the headlines of a document have different texts.
Headline(o) == [text |-> o, start_idx |-> o]

\* The ascending lists of at most n offsets below len
RECURSIVE OffsetLists(_, _, _)
OffsetLists(from, len, n) ==
    {<<>>} \cup
    (IF n = 0 THEN {}
     ELSE UNION {{<<Headline(o)>> \o t : t \in OffsetLists(o + 1, len, n - 1)} :
                    o \in from..(len - 1)})

MetasFor(content) ==
    {EmptyMeta} \cup
    {[name |-> "doc", headlines |-> h] : h \in OffsetLists(0, Len(content), MaxHeadlines)}

MetaParams ==
    ParamSpace({"word", "page"}, {1, 2}, {0}, {None}, {None}, {0}, {0},
               {Some("word")}, BOOLEAN)

MetaDocs ==
    UNION {{Doc(c, "text", m) : m \in MetasFor(c)} :
              c \in Texts({"a", Space, FormFeed}, MaxLen)}

MetaBatches == {<<d>> : d \in MetaDocs}

\* Batches of documents that differ in their id_hash_keys, empty documents
\* among them; the override max_tokens = 1 meets instances without tokenizer.
OrderParams ==
    ParamSpace({"word"}, {1, 2}, {0, 1}, {None}, {None}, {0}, {0}, {None}, {TRUE})

OrderOverrides == {[NoOverrides EXCEPT !.max_tokens = mt] : mt \in Opt({1})}

OrderDocs ==
    {[Doc(c, "text", EmptyMeta) EXCEPT !.id_hash_keys = Some(<<k>>)] :
        c \in {<<>>, <<"a">>, <<"a", Space, "a">>}, k \in {"content", "meta"}}

OrderBatches == Batches(OrderDocs, MaxBatch)

\* Pages of several words under a token cap: a page may hold more tokens
\* than max_tokens
TokenParams ==
    ParamSpace({"page"}, 0..2, {0, 1}, {None}, {None}, {0}, 1..MaxTokens, {Some("word")},
               {TRUE})

TokenDocs == {Doc(c, "text", EmptyMeta) : c \in Texts({"a", Space, FormFeed}, MaxLen)}

TokenBatches == {<<d>> : d \in TokenDocs}

\* The assembler taken alone: any units, any window_size and window_overlap,
\* those that _validate_split_params rejects included.  A unit is a text
\* and its number of tokens.
AssemblerUnits == {<< <<"a">>, 1 >>, << <<"a", "a">>, 2 >>}

\* The example of the specification: "A. B. C. D." split by sentence
ExampleContent == <<"A", Dot, Space, "B", Dot, Space, "C", Dot, Space, "D", Dot>>

ExampleUnits ==
    validate_unit_boundaries(split_by_sentence_tokenizer(ExampleContent), 0, 0, None)

AssemblerInputs ==
    UNION {[1..n -> AssemblerUnits] : n \in 0..MaxUnits} \cup {ExampleUnits}

AssemblerCalls ==
    {[NoCall EXCEPT !.split_length = l, !.split_overlap = k, !.max_chars = mc,
                    !.max_tokens = mt] :
        l \in 0..MaxSplitLength, k \in 0..MaxOverlap, mc \in 0..MaxChars,
        mt \in 0..MaxTokens}

InitAssembler ==
    /\ pc = "assemble"
    /\ valid_contents \in AssemblerInputs
    /\ call \in AssemblerCalls
    /\ idx = 0
    /\ windows = <<>>
    /\ init_args = NoArgs
    /\ splitter = NoSplitter
    /\ documents = <<>>
    /\ final_documents = <<>>
    /\ heap = <<>>
    /\ raised = "none"
    /\ history = <<>>
    /\ batch = NoBatch

\* Several calls of split on one instance, each with one parameter
\* overridden, or none
CallParams ==
    ParamSpace({"word"}, {1, 2}, {0}, {None}, {None}, {0}, {0}, {Some("word")}, {TRUE})

CallOverrides ==
    {NoOverrides}
    \cup {[NoOverrides EXCEPT !.split_by = Some(sb)] : sb \in {"page", "unknown"}}
    \cup {[NoOverrides EXCEPT !.split_regex = Some(<<"a">>)],
          [NoOverrides EXCEPT !.split_separators = Some(<< <<Space>> >>)],
          [NoOverrides EXCEPT !.max_chars = Some(1)],
          [NoOverrides EXCEPT !.max_tokens = Some(1)],
          [NoOverrides EXCEPT !.add_page_number = Some(FALSE)]}
    \cup {[NoOverrides EXCEPT !.split_length = Some(l)] : l \in 0..MaxSplitLength}
    \cup {[NoOverrides EXCEPT !.split_overlap = Some(k)] : k \in 1..MaxOverlap}

CallBatches ==
    {<<Doc(c, "text", EmptyMeta)>> : c \in {<<"a", Space, "a">>, <<"a", FormFeed, "a", "a">>}}

\* run_batch on lists of documents, on instances that store a max_tokens and
\* split_separators
RunParams ==
    ParamSpace({"word"}, {2}, {0}, {None}, Opt({<< <<Space>> >>}), {0}, {0, 1},
               {Some("word")}, {TRUE})

RunArgs ==
    {[NoRunArgs EXCEPT !.split_by = sb, !.split_length = l, !.split_max_chars = mc,
                       !.add_page_number = pg] :
        sb \in Opt({"page"}), l \in Opt({1}), mc \in Opt({1}), pg \in Opt({FALSE})}

RunBatches ==
    {<<>>,
     <<Doc(<<"a", Space, "a">>, "text", [name |-> "first"])>>,
     <<Doc(<<>>, "text", [name |-> "first"]),
       Doc(<<"a", FormFeed, "a", "a">>, "text", [name |-> "second"])>>}

RunLists == UNION {[1..n -> RunBatches] : n \in 0..MaxLists}

\* Batches in which some documents are not texts, before and after texts
TypeParams ==
    ParamSpace({"word"}, {1, 2}, {0}, {None}, {None}, {0}, {0}, {Some("word")}, {TRUE})

TypeOverrides == {[NoOverrides EXCEPT !.split_length = l] : l \in Opt({1})}

TypeDocs ==
    {Doc(c, t, EmptyMeta) : c \in {<<>>, <<"a", Space, "a">>},
                            t \in {"text", "table", "image"}}

TypeBatches == Batches(TypeDocs, MaxBatch)

\* Calls of split whose overrides make the configuration invalid: lengths
\* and overlaps from -1 up, an unknown split_by, "regex" without a pattern
\* (None, or the empty string <<>>).
ConfigParams ==
    ParamSpace({"word", "regex"}, {0, 2}, {0, 1}, Opt({<<"a">>}), {None}, {0}, {0},
               {None}, {TRUE})

ConfigOverrides ==
    {[NoOverrides EXCEPT !.split_by = sb, !.split_regex = re, !.split_length = l,
                         !.split_overlap = k] :
        sb \in Opt({"regex", "unknown"}), re \in Opt({<<>>}),
        l \in Opt(-1..MaxSplitLength), k \in Opt(-1..MaxOverlap)}

ConfigBatches ==
    {<<>>, <<Doc(<<"a", Space, "a">>, "text", EmptyMeta)>>,
     <<Doc(<<>>, "text", EmptyMeta), Doc(<<"a">>, "text", EmptyMeta)>>}

----------------------------------------------------------------------------
(* Specifications                                                          *)

Next ==
    \/ \E p \in SurfaceParams : Construct(p)
    \/ \E docs \in SurfaceBatches, ov \in SurfaceOverrides : SplitCall(docs, ov)
    \/ SplitDocument
    \/ SplitReturn

Spec == Init /\ [][Next]_vars

NextWindows ==
    \/ \E p \in WindowParams : Construct(p)
    \/ \E docs \in WindowBatches : SplitCall(docs, NoOverrides)
    \/ SplitDocument
    \/ SplitReturn

SpecWindows == Init /\ [][NextWindows]_vars

NextMeta ==
    \/ \E p \in MetaParams : Construct(p)
    \/ \E docs \in MetaBatches : SplitCall(docs, NoOverrides)
    \/ SplitDocument
    \/ SplitReturn

SpecMeta == Init /\ [][NextMeta]_vars

NextConfig ==
    \/ \E p \in ConfigParams : Construct(p)
    \/ \E docs \in ConfigBatches, ov \in ConfigOverrides : SplitCall(docs, ov)
    \/ SplitDocument
    \/ SplitReturn

SpecConfig == Init /\ [][NextConfig]_vars

NextTypes ==
    \/ \E p \in TypeParams : Construct(p)
    \/ \E docs \in TypeBatches, ov \in TypeOverrides : SplitCall(docs, ov)
    \/ SplitDocument
    \/ SplitReturn

SpecTypes == Init /\ [][NextTypes]_vars

NextRunBatch ==
    \/ \E p \in RunParams : Construct(p)
    \/ \E lists \in RunLists, rb \in RunArgs : RunBatch(lists, rb)
    \/ RunBatchNext
    \/ SplitDocument
    \/ SplitReturn
    \/ RunBatchReturn

SpecRunBatch == Init /\ [][NextRunBatch]_vars

NextCalls ==
    \/ \E p \in CallParams : Construct(p)
    \/ \E docs \in CallBatches, ov \in CallOverrides : SplitCall(docs, ov)
    \/ \E docs \in CallBatches, ov \in CallOverrides : SplitAgain(docs, ov)
    \/ SplitDocument
    \/ SplitReturn

SpecCalls == Init /\ [][NextCalls]_vars

NextAssembler ==
    \/ AssembleStep
    \/ AssembleReturn

\* The loop of the assembler is sequential code: a turn that can be taken
\* is taken.
SpecAssembler == InitAssembler /\ [][NextAssembler]_vars /\ WF_vars(NextAssembler)

NextTokens ==
    \/ \E p \in TokenParams : Construct(p)
    \/ \E docs \in TokenBatches : SplitCall(docs, NoOverrides)
    \/ SplitDocument
    \/ SplitReturn

SpecTokens == Init /\ [][NextTokens]_vars

NextOrder ==
    \/ \E p \in OrderParams : Construct(p)
    \/ \E docs \in OrderBatches, ov \in OrderOverrides : SplitCall(docs, ov)
    \/ SplitDocument
    \/ SplitReturn

SpecOrder == Init /\ [][NextOrder]_vars

----------------------------------------------------------------------------
(* Claims                                                                  *)

Range(f) == {f[i] : i \in DOMAIN f}

ChunkTexts == [k \in 1..Len(final_documents) |-> final_documents[k].content]

\* The texts of the validated units below index i
UnitTextsBefore(i) == [j \in 1..i |-> valid_contents[j][1]]

\* The offset in the original content at which the text of window w starts
WindowStartOffset(w) == SumLen(UnitTextsBefore(windows[w][1]))

WindowChars(w) == SumLen([i \in 1..Len(windows[w]) |-> valid_contents[windows[w][i] + 1][1]])

WindowTokens(w) ==
    LET RECURSIVE Sum(_)
        Sum(i) == IF i = 0 THEN 0 ELSE valid_contents[windows[w][i] + 1][2] + Sum(i - 1)
    IN  Sum(Len(windows[w]))

\* C1: with max_chars = M > 0 every chunk split returns has at most M
\* characters, whatever split_length, split_overlap and max_tokens are.
C1_CharCap ==
    (pc = "returned" /\ call.max_chars > 0) =>
        \A k \in 1..Len(final_documents) :
            Len(final_documents[k].content) <= call.max_chars

\* C2: with split_overlap = 0 the chunks of a document, concatenated in
\* order with nothing inserted, are the content of the document.
C2_Lossless ==
    (pc = "returned" /\ call.split_overlap = 0 /\ Len(documents) = 1) =>
        Concat(ChunkTexts) = documents[1].content

\* C3: every validated unit is in at least one window, and two consecutive
\* windows share at most split_overlap units.
C3_Coverage ==
    (pc = "returned" /\ Len(documents) = 1 /\ documents[1].content /= <<>>) =>
        /\ \A i \in 0..(Len(valid_contents) - 1) :
               \E w \in 1..Len(windows) : i \in Range(windows[w])
        /\ \A w \in 1..(Len(windows) - 1) :
               Cardinality(Range(windows[w]) \cap Range(windows[w + 1]))
                   <= call.split_overlap

ChunkMeta(k) == heap[final_documents[k].meta]

ChunkHasHeadline(k, text) ==
    /\ "headlines" \in DOMAIN ChunkMeta(k)
    /\ \E x \in 1..Len(ChunkMeta(k).headlines) : ChunkMeta(k).headlines[x].text = text

RECURSIVE FormFeedsBefore(_)
\* The form feeds in the texts of the chunks 1..k-1
FormFeedsBefore(k) ==
    IF k <= 1 THEN 0
    ELSE Count(final_documents[k - 1].content, FormFeed) + FormFeedsBefore(k - 1)

\* C4: each headline of the parent, at offset o, is in the meta of exactly
\* one chunk, and its start_idx there is o minus the offset at which the
\* chunk starts in the original content.  (The text of a headline of the
\* model is its offset o in the parent.)
C4_HeadlineRelocation ==
    (pc = "returned" /\ Len(documents) = 1
        /\ "headlines" \in DOMAIN heap[documents[1].meta]) =>
        LET hs == heap[documents[1].meta].headlines
        IN  \A j \in 1..Len(hs) :
                LET holders == {k \in 1..Len(final_documents) :
                                   ChunkHasHeadline(k, hs[j].text)}
                IN  /\ Cardinality(holders) = 1
                    /\ \A k \in holders :
                          \A x \in 1..Len(ChunkMeta(k).headlines) :
                              ChunkMeta(k).headlines[x].text = hs[j].text =>
                                  ChunkMeta(k).headlines[x].start_idx
                                      = hs[j].text - WindowStartOffset(k)

\* C5: with page numbering enabled the k-th chunk has page = 1 + the number
\* of form feeds in the chunks before it.
C5_PageNumbers ==
    (pc = "returned" /\ call.add_page_number /\ Len(documents) = 1) =>
        \A k \in 1..Len(final_documents) :
            /\ "page" \in DOMAIN ChunkMeta(k)
            /\ ChunkMeta(k).page = 1 + FormFeedsBefore(k)

SharedUnits(w) == Range(windows[w]) \cap Range(windows[w + 1])

\* The last k units of window w are the first k units of window w + 1
BoundaryOverlap(w, k) ==
    /\ Len(windows[w]) >= k
    /\ Len(windows[w + 1]) >= k
    /\ SubSeq(windows[w], Len(windows[w]) - k + 1, Len(windows[w]))
           = SubSeq(windows[w + 1], 1, k)
    /\ Cardinality(SharedUnits(w)) = k

ClosedByCap(w) ==
    LET e == windows[w][Len(windows[w])] + 1
    IN  /\ e < Len(valid_contents)
        /\ \/ /\ call.max_chars > 0
              /\ WindowChars(w) + Len(valid_contents[e + 1][1]) > call.max_chars
           \/ /\ call.max_tokens > 0
              /\ WindowTokens(w) + valid_contents[e + 1][2] > call.max_tokens

\* C7 as claimed: with split_length = L > 0 and split_overlap = 0 every
\* window but the last holds exactly L units, whatever the caps are.
C7_ExactlyLAlways ==
    (pc = "returned" /\ call.split_length > 0 /\ call.split_overlap = 0
        /\ Len(documents) = 1) =>
        \A w \in 1..(Len(windows) - 1) : Len(windows[w]) = call.split_length

\* C7 as amended: no window holds more than L units, and a window other than
\* the last holds exactly L unless max_chars or max_tokens closed it before.
C7_ExactlyLUnlessCapped ==
    (pc = "returned" /\ call.split_length > 0 /\ call.split_overlap = 0
        /\ Len(documents) = 1) =>
        \A w \in 1..Len(windows) :
            /\ Len(windows[w]) <= call.split_length
            /\ (w < Len(windows) /\ Len(windows[w]) < call.split_length)
                 => ClosedByCap(w)

\* C7, reached: a window of L >= 2 units that is not the last, under an
\* active cap
C7_Witness ==
    /\ pc = "returned"
    /\ call.split_length >= 2
    /\ call.split_overlap = 0
    /\ (call.max_chars > 0 \/ call.max_tokens > 0)
    /\ Len(windows) >= 2
    /\ Len(windows[1]) = call.split_length

\* C8: the meta of a chunk is an object of its own: not the meta of a
\* document of the batch, not the meta of another chunk.
C8_OwnMeta ==
    pc = "returned" =>
        \A k \in 1..Len(final_documents) :
            /\ \A i \in 1..Len(documents) : final_documents[k].meta /= documents[i].meta
            /\ \A l \in 1..Len(final_documents) :
                   l /= k => final_documents[l].meta /= final_documents[k].meta

InSplit == pc \in {"loop", "returned", "raised"}

\* C9: max_tokens > 0 without a tokenizer is rejected with a ValueError, by
\* __init__ and, given as an override, by split before the loop starts.
C9_TokenizerRequired ==
    /\ (pc /= "new" /\ init_args.max_tokens > 0 /\ IsNone(init_args.tokenizer_model))
         => (pc = "failed" /\ raised = "ValueError")
    /\ (InSplit /\ call.max_tokens > 0 /\ IsNone(splitter.tokenizer))
         => (pc = "raised" /\ raised = "ValueError" /\ idx = 0)

\* The split_by values of the documentation
Documented == SplitBy \cup {"separators"}

HasRequired(split_by, split_regex, split_separators, tokenizer, max_tokens) ==
    /\ split_by = "regex" => ~Falsy(split_regex)
    /\ split_by = "separators" => ~Falsy(split_separators)
    /\ (split_by = "token" \/ max_tokens > 0) => ~IsNone(tokenizer)

ValidLengths(split_length, split_overlap) ==
    /\ split_length >= 0
    /\ split_length > 0 => (0 <= split_overlap /\ split_overlap < split_length)

NonEmptyDocuments == {i \in 1..Len(documents) : documents[i].content /= <<>>}

\* C10: every documented split_by, given with what it requires, is accepted
\* by __init__ and by split, and every non-empty document is chunked.
C10_SplitByAccepted ==
    /\ (/\ pc /= "new"
        /\ init_args.split_by \in Documented
        /\ HasRequired(init_args.split_by, init_args.split_regex,
                       init_args.split_separators, init_args.tokenizer_model,
                       init_args.max_tokens)
        /\ ValidLengths(init_args.split_length, init_args.split_overlap))
         => pc /= "failed"
    /\ (/\ InSplit
        /\ call.split_by \in Documented
        /\ HasRequired(call.split_by, call.split_regex, call.split_separators,
                       splitter.tokenizer, call.max_tokens)
        /\ ValidLengths(call.split_length, call.split_overlap)
        /\ \A i \in 1..Len(documents) : documents[i].content_type = "text")
         => /\ raised = "none"
            /\ pc = "returned" => Len(final_documents) >= Cardinality(NonEmptyDocuments)

\* The configurations the specification calls configuration errors
BadConfiguration(c) ==
    \/ c.split_by \notin Documented
    \/ c.split_length < 0
    \/ (c.split_length > 0
          /\ (c.split_overlap < 0 \/ c.split_overlap >= c.split_length))
    \/ (c.split_by = "regex" /\ Falsy(c.split_regex))

\* C11: a call of split whose effective configuration has an unknown
\* split_by, a negative split_length, a split_overlap that is negative or not
\* below a positive split_length, or "regex" without a split_regex, raises
\* ValueError before the first document is segmented and returns no chunk.
C11_ConfigurationErrors ==
    (InSplit /\ BadConfiguration(call)) =>
        /\ pc = "raised"
        /\ raised = "ValueError"
        /\ idx = 0
        /\ final_documents = <<>>
        /\ valid_contents = <<>>
        /\ windows = <<>>

\* C11, reached: a call on a non-empty document raised because the overlap
\* given for the call is not below the effective length
C11_Witness ==
    /\ pc = "raised"
    /\ raised = "ValueError"
    /\ \E i \in 1..Len(documents) : documents[i].content /= <<>>
    /\ call.split_by \in SplitBy
    /\ call.split_length > 0
    /\ call.split_overlap >= call.split_length
    /\ ~IsNone(history[Len(history)].split_overlap)

\* A chunk by value: its text, the content of its meta, its id_hash_keys
ChunkValue(chunk) ==
    [content |-> chunk.content, meta |-> heap[chunk.meta],
     id_hash_keys |-> chunk.id_hash_keys]

\* The chunks of one non-empty document under the parameters c, by value
ChunkValuesOf(c, document) ==
    LET contents == ValidContentsOf(c, document.content)
        groups == WindowsOf(c, contents)
    IN  [w \in 1..Len(groups) |->
            [content |-> JoinWindow(contents, groups[w]), meta |-> heap[document.meta],
             id_hash_keys |-> document.id_hash_keys]]

RECURSIVE ChunkValuesOfAll(_, _)
ChunkValuesOfAll(c, docs) ==
    IF docs = <<>> THEN <<>>
    ELSE ChunkValuesOf(c, Head(docs)) \o ChunkValuesOfAll(c, Tail(docs))

\* The batch with its empty documents removed
WithoutEmpty(docs) == SelectSeq(docs, LAMBDA d : d.content /= <<>>)

\* C12: at every point of a call the chunks produced so far are those of
\* the documents consumed so far with the empty ones removed, in the same
\* order, and no error is raised at an empty document.
C12_EmptyDocumentsSkipped ==
    InSplit =>
        /\ [k \in 1..Len(final_documents) |-> ChunkValue(final_documents[k])]
               = ChunkValuesOfAll(call, WithoutEmpty(SubSeq(documents, 1, idx)))
        /\ (pc = "raised" /\ idx < Len(documents) /\ documents[idx + 1].content = <<>>)
              => (idx = 0 /\ raised = "ValueError")

\* C12, reached: a call returned the two chunks of a document that follows
\* an empty one
C12_Witness ==
    /\ pc = "returned"
    /\ Len(documents) = 2
    /\ documents[1].content = <<>>
    /\ documents[2].content /= <<>>
    /\ Len(final_documents) = 2

\* The document a chunk comes from: the one whose meta object it carries
ParentOf(k) == CHOOSE i \in 1..Len(documents) : documents[i].meta = final_documents[k].meta

\* The chunks so far are in the order of their documents, each with the
\* id_hash_keys of its document
OrderedByDocument ==
    /\ \A k \in 1..Len(final_documents) :
           /\ ParentOf(k) <= idx
           /\ final_documents[k].id_hash_keys = documents[ParentOf(k)].id_hash_keys
    /\ \A k, l \in 1..Len(final_documents) : k < l => ParentOf(k) <= ParentOf(l)

\* One iteration of the loop keeps the chunks it found and appends one chunk
\* for each window of its document, in window order
AppendsWindows ==
    (pc = "loop" /\ idx' = idx + 1) =>
        LET n == Len(final_documents)
            added == SubSeq(final_documents', n + 1, Len(final_documents'))
        IN  /\ SubSeq(final_documents', 1, n) = final_documents
            /\ IF documents[idx + 1].content = <<>>
               THEN added = <<>>
               ELSE /\ Len(added) = Len(windows')
                    /\ \A w \in 1..Len(added) :
                          /\ added[w].content = JoinWindow(valid_contents', windows'[w])
                          /\ added[w].id_hash_keys = documents[idx + 1].id_hash_keys
                          /\ added[w].meta = documents[idx + 1].meta

\* C20: the chunks split returns are ordered by document and then by window,
\* a document has as many chunks as windows, and every chunk carries the
\* id_hash_keys of its own document.
C20_OrderedChunks == [](InSplit => OrderedByDocument) /\ [][AppendsWindows]_vars

\* C20, reached: two documents with different id_hash_keys, the first of
\* two windows, the second of one
C20_Witness ==
    /\ pc = "returned"
    /\ Len(documents) = 2
    /\ documents[1].id_hash_keys /= documents[2].id_hash_keys
    /\ Len(final_documents) = 3
    /\ final_documents[2].id_hash_keys = documents[1].id_hash_keys
    /\ final_documents[3].id_hash_keys = documents[2].id_hash_keys

\* The loop has validated the units of the document of index idx - 1
Validated == pc \in {"loop", "returned"} /\ idx >= 1 /\ documents[idx].content /= <<>>

\* split_content of the document just split, as the segmenter returned it
SplitContent == ApplySplitter(call.splitter_function, documents[idx].content)

ValidatedTexts == [j \in 1..Len(valid_contents) |-> valid_contents[j][1]]

\* The offsets at which the texts of a sequence end, 0 included
Ends(texts) == {SumLen(SubSeq(texts, 1, j)) : j \in 0..Len(texts)}

\* The offsets at which the validated units must end: every size characters
\* inside a unit, counted from its start, and at the end of every unit
SliceEnds(units, size) ==
    Ends(units) \cup
    UNION {{SumLen(SubSeq(units, 1, i - 1)) + k * size :
                k \in {k \in 1..Len(units[i]) : k * size < Len(units[i])}} :
              i \in 1..Len(units)}

\* C13: with max_chars = M > 0 the validated units are the units in order,
\* every unit longer than M cut into slices of exactly M characters (the
\* last possibly shorter): they concatenate to the same text, they end
\* exactly at the ends of the units and every M characters inside a unit,
\* and none is longer than M.
C13_ForceSplit ==
    (Validated /\ call.max_chars > 0) =>
        /\ Concat(ValidatedTexts) = Concat(SplitContent)
        /\ Ends(ValidatedTexts) = SliceEnds(SplitContent, call.max_chars)
        /\ \A j \in 1..Len(valid_contents) :
               Len(ValidatedTexts[j]) >= 1 /\ Len(ValidatedTexts[j]) <= call.max_chars

\* C13, reached: a unit of three characters validated under max_chars = 2,
\* next to a unit that is passed unchanged
C13_Witness ==
    /\ Validated
    /\ call.max_chars = 2
    /\ \E i \in 1..Len(SplitContent) : Len(SplitContent[i]) = 3
    /\ \E i \in 1..Len(SplitContent) : Len(SplitContent[i]) = 1
    /\ Len(valid_contents) = 3

\* C14: with max_tokens = T > 0 a chunk of two or more units holds at most T
\* tokens, and a unit that alone holds more than T tokens is neither split
\* nor dropped: it is a chunk of its own, unchanged.
C14_TokenCap ==
    (pc = "returned" /\ call.max_tokens > 0 /\ Len(documents) = 1
        /\ documents[1].content /= <<>>) =>
        /\ \A w \in 1..Len(windows) :
               Len(windows[w]) >= 2 => WindowTokens(w) <= call.max_tokens
        /\ \A i \in 0..(Len(valid_contents) - 1) :
               valid_contents[i + 1][2] > call.max_tokens =>
                   \E w \in 1..Len(windows) :
                       /\ windows[w] = <<i>>
                       /\ final_documents[w].content = valid_contents[i + 1][1]
        /\ \A i \in 1..Len(SplitContent) :
               \E j \in 1..Len(valid_contents) : valid_contents[j][1] = SplitContent[i]

\* A turn of the assembler records a non-empty window that starts at the
\* start index and moves the start index forward
RecordsAndAdvances ==
    pc = "assemble" /\ pc' = "assemble" =>
        /\ idx' > idx
        /\ Len(windows') = Len(windows) + 1
        /\ windows'[Len(windows')] /= <<>>
        /\ windows'[Len(windows')][1] = idx

\* The loop runs while the start index is below the number of units, and
\* what it returns is make_merge_groups of the units
StopsAtTheEnd ==
    /\ pc = "assemble" /\ pc' = "assembled" => idx >= Len(valid_contents)
    /\ pc = "assemble" /\ idx >= Len(valid_contents) => pc' = "assembled"
    /\ pc' = "assembled" =>
           windows' = make_merge_groups(valid_contents, call.split_length,
                          call.split_overlap, call.max_chars, call.max_tokens)

\* C15: the assembly terminates for every unit sequence, window_size >= 0
\* and window_overlap >= 0 (window_overlap >= window_size included): each
\* turn records a non-empty window and moves the start index forward, and
\* the loop stops once the start index reaches the number of units.
C15_AssemblyTerminates ==
    /\ [][RecordsAndAdvances /\ StopsAtTheEnd]_vars
    /\ <>(pc = "assembled")

\* C15, reached: the assembly of three units ended with window_overlap
\* above window_size
C15_Witness ==
    /\ pc = "assembled"
    /\ call.split_length > 0
    /\ call.split_overlap > call.split_length
    /\ Len(valid_contents) = 3
    /\ Len(windows) = 3

\* C16: for the units "A. ", "B. ", "C. ", "D." with split_length = 2,
\* split_overlap = 1 and no cap, the windows are [0,1], [1,2], [2,3] and no
\* other.
C16_ExampleWindows ==
    (/\ pc = "assembled"
     /\ valid_contents = ExampleUnits
     /\ call.split_length = 2
     /\ call.split_overlap = 1
     /\ call.max_chars = 0
     /\ call.max_tokens = 0) =>
        windows = << <<0, 1>>, <<1, 2>>, <<2, 3>> >>

\* Some headline of the parent starts inside the span of chunk k
HasAttributedHeadline(k, parent) ==
    \E j \in 1..Len(parent.headlines) :
        /\ WindowStartOffset(k) <= parent.headlines[j].start_idx
        /\ parent.headlines[j].start_idx < WindowStartOffset(k) + WindowChars(k)

\* C17: a chunk's meta has a headlines field iff the parent's meta has one,
\* and when the parent has one the list of a chunk to which no headline is
\* attributed is empty.
C17_HeadlinesField ==
    (pc = "returned" /\ Len(documents) = 1) =>
        LET parent == heap[documents[1].meta]
        IN  \A k \in 1..Len(final_documents) :
                /\ ("headlines" \in DOMAIN ChunkMeta(k)) <=> ("headlines" \in DOMAIN parent)
                /\ ("headlines" \in DOMAIN parent /\ ~HasAttributedHeadline(k, parent))
                      => ChunkMeta(k).headlines = <<>>

\* The parameters an instance stores
Stored ==
    {"split_by", "split_length", "split_overlap", "split_regex", "split_separators",
     "max_chars", "max_tokens", "add_page_number"}

\* The instance stores what __init__ was given
StoredAsConstructed == \A f \in Stored : splitter[f] = init_args[f]

\* Every parameter of the running call is the value given for the call or,
\* when None was given, the value __init__ was given
ResolvedPerCall ==
    LET ov == history[Len(history)]
    IN  /\ \A f \in Stored \ {"split_regex", "split_separators"} :
               call[f] = IF IsNone(ov[f]) THEN init_args[f] ELSE Get(ov[f])
        /\ \A f \in {"split_regex", "split_separators"} :
               call[f] = IF IsNone(ov[f]) THEN init_args[f] ELSE ov[f]

\* The parameters of a call without overrides on a fresh instance
FreshCall ==
    [f \in Stored |-> init_args[f]] @@
    [splitter_function |-> get_splitter(init_args.split_by, init_args.split_regex,
                                        init_args.split_separators)]

\* A call without overrides returns what it would on a fresh instance
SameWithoutOverrides ==
    (pc = "returned" /\ history[Len(history)] = NoOverrides) =>
        [k \in 1..Len(final_documents) |-> ChunkValue(final_documents[k])]
            = ChunkValuesOfAll(FreshCall, WithoutEmpty(documents))

\* No step of split changes what the instance stores
StoredUnchanged == pc /= "new" => (splitter' = splitter /\ init_args' = init_args)

\* C18: split keeps no state in the configuration across calls: the stored
\* parameters are those of __init__ after every call (a call that raises
\* included), a parameter given as None is the stored value and any other is
\* used for that call only, and a later call without overrides returns the
\* chunks it would have returned before.
C18_NoCrossCallState ==
    /\ [](InSplit => (StoredAsConstructed /\ ResolvedPerCall /\ SameWithoutOverrides))
    /\ [][StoredUnchanged]_vars

\* C18, reached: a call without overrides returned chunks after a call on
\* the same instance that overrode split_length
C18_Witness ==
    /\ pc = "returned"
    /\ Len(history) = 2
    /\ history[1].split_length = Some(1)
    /\ history[2] = NoOverrides
    /\ splitter.split_length = 2
    /\ Len(final_documents) = 1

\* The parameters the calls of split inside run_batch are to run with:
\* those given to run_batch, else the stored ones; max_tokens and
\* split_separators always the stored ones
RunBatchParameters ==
    [split_by |-> OrElse(batch.args.split_by, splitter.split_by),
     split_regex |-> IF IsNone(batch.args.split_regex) THEN splitter.split_regex
                     ELSE batch.args.split_regex,
     split_separators |-> splitter.split_separators,
     split_length |-> OrElse(batch.args.split_length, splitter.split_length),
     split_overlap |-> OrElse(batch.args.split_overlap, splitter.split_overlap),
     max_chars |-> OrElse(batch.args.split_max_chars, splitter.max_chars),
     max_tokens |-> splitter.max_tokens,
     add_page_number |-> OrElse(batch.args.add_page_number, splitter.add_page_number)]

RunBatchCall ==
    RunBatchParameters @@
    [splitter_function |-> get_splitter(RunBatchParameters.split_by,
                                        RunBatchParameters.split_regex,
                                        RunBatchParameters.split_separators)]

C21_NonTextRejected ==
    (InSplit /\ \E i \in 1..Len(documents) : documents[i].content_type /= "text") =>
        /\ pc = "raised"
        /\ raised = "ValueError"
        /\ idx = 0
        /\ final_documents = <<>>
        /\ valid_contents = <<>>
        /\ windows = <<>>

\* C21, reached: a call with a valid configuration raised on a batch whose
\* first document is a non-empty text and whose second is a table
C21_Witness ==
    /\ pc = "raised"
    /\ raised = "ValueError"
    /\ Len(documents) = 2
    /\ documents[1].content_type = "text"
    /\ documents[1].content /= <<>>
    /\ documents[2].content_type = "table"
    /\ ~BadConfiguration(call)
    /\ call.splitter_function.fn /= "ValueError"
    /\ final_documents = <<>>

====
